---- MODULE Spec2Model ----
(***************************************************************************)
(* Model of the evidencegap backend: the PubMed scrape handlers            *)
(* (main.py scrape_pubmed, api/index.py scrape_papers, api/scrape.py       *)
(* handler.do_POST) and the analyze                                        *)
(* handlers (main.py analyze_evidence_gap, api/index.py analyze_papers,    *)
(* api/analyze.py handler.do_POST).                                        *)
(*                                                                         *)
(* A request is followed from its arrival to its HTTP response.  The       *)
(* upstream services (PubMed, the model API) are the environment: what     *)
(* they reply is chosen nondeterministically from bounded sets.            *)
(***************************************************************************)
EXTENDS Integers, Sequences, FiniteSets, TLC

VARIABLES
    impl,        \* which handler serves the request
    pc,          \* position of the handler: idle, search, loop, fetch, model, hung, done
    cap,         \* max_results of the scrape request
    page,        \* the result entries the upstream holds for the query
    articles,    \* entries the handler got from the upstream reply
    idx,         \* position of the article loop (main.py:110)
    results,     \* the list the handler accumulates
    status,      \* HTTP status of the response, 0 while none is sent
    detail,      \* error text of the response
    body,        \* payload of a successful response
    calls,       \* outbound calls issued by the request
    fetchFailed, \* ids of the entries whose abstract fetch failed
    apiKey,      \* OPENAI_API_KEY is set in the environment
    papers,      \* number of records of the analyze request
    content,     \* the model's reply text, as tokens
    cause,       \* the failure kind that occurred in the handler
    prev,        \* kind and response of the previous failed analyze request
    sent,        \* what the model wrote: the parts content is rendered from
    pydantic,    \* major version of the installed schema library
    request,     \* the query and max_results a caller sends to both scrape handlers
    upstream,    \* what E-utilities answers to that request: its replies and matches
    twin         \* the request as api/scrape.py serves it, next to api/index.py

vars == <<impl, pc, cap, page, articles, idx, results, status, detail, body,
          calls, fetchFailed, apiKey, papers, content, cause, prev, sent,
          pydantic, request, upstream, twin>>

scrapeVars == <<cap, page, articles, idx, results, fetchFailed>>
analyzeVars == <<apiKey, papers, content, prev, sent, pydantic>>
pairVars == <<request, upstream, twin>>

----------------------------------------------------------------------------
\* Bounds of the model

MaxEntries == 9     \* longest upstream result page
MaxDefects == 1     \* missing elements over a whole page
MaxFaults == 1      \* failed abstract fetches in one request
MaxCap == 3         \* largest max_results a request carries
MaxPapers == 1      \* records of an analyze request
MaxAffix == 1       \* tokens of text before and after the reply's object
MaxBadFields == 1   \* members of the reply's object that differ from the schema

\* articles[:8], main.py:110
PageCap == 8
\* timeout=10, main.py:105 and main.py:123
Timeout == 10

----------------------------------------------------------------------------
\* Values

Absent == <<>>                       \* Python None
Explicit(t) == <<"explicit", t>>     \* a call given timeout=t
NoTimeout == <<"none">>              \* a requests.get without timeout=
LibDefault == <<"default">>          \* a call bounded only by its library's default

Fields == {"title", "authors", "citation", "abstract"}

Min(a, b) == IF a < b THEN a ELSE b

Prefix(s, n) == SubSeq(s, 1, Min(n, Len(s)))

RECURSIVE KSubsets(_, _)
\* the subsets of S with at most k elements
KSubsets(S, k) ==
    IF k = 0 THEN {{}}
    ELSE LET P == KSubsets(S, k - 1)
         IN  P \cup {p \cup {x} : p \in P, x \in S}

\* An upstream result entry: its position in the document and the elements
\* it lacks.  "abstract" missing: no abstract element for that record.
Entry(i, D) == [id |-> i, missing |-> {f \in Fields : <<i, f>> \in D}]

Pages ==
    UNION {{[i \in 1..n |-> Entry(i, D)] : D \in KSubsets((1..n) \X Fields, MaxDefects)}
           : n \in 0..MaxEntries}

----------------------------------------------------------------------------
\* main.py scrape_pubmed: extraction of one result entry

\* f"https://pubmed.ncbi.nlm.nih.gov{title_tag['href']}", href "/<id>/",
\* as the list url.split("/") yields
Url(e) == <<"https:", "", "pubmed.ncbi.nlm.nih.gov", e.id, "">>

\* url.split("/")[-2]
Pmid(url) == url[Len(url) - 1]

Text(f, e) == <<f, e.id>>

\* title_tag.get_text(strip=True) if title_tag else None
ExtractTitle(e) == IF "title" \in e.missing THEN Absent ELSE Text("title", e)

ExtractUrl(e) == IF "title" \in e.missing THEN Absent ELSE Url(e)

ExtractPmid(e) == IF ExtractUrl(e) = Absent THEN Absent ELSE <<Pmid(ExtractUrl(e))>>

ExtractAuthors(e) == IF "authors" \in e.missing THEN Absent ELSE Text("authors", e)

ExtractDate(e) == IF "citation" \in e.missing THEN Absent ELSE Text("date", e)

FetchOutcomes == {"ok", "timeout", "error", "status"}

AbstractOf(e, outcome) ==
    IF outcome = "ok" /\ "abstract" \notin e.missing
    THEN Text("abstract", e)
    ELSE Absent

\* abs_tag.get_text(strip=True) if abs_tag else None; None after an exception
FetchAbstract(e, outcome) == AbstractOf(e, outcome)

\* except Exception, main.py:128: no failure of the abstract fetch leaves the
\* try block
FetchRaises(outcome) == FALSE

Record(e, abstract) ==
    [title |-> ExtractTitle(e), abstract |-> abstract,
     authors |-> ExtractAuthors(e), publication_date |-> ExtractDate(e),
     pmid |-> ExtractPmid(e), url |-> ExtractUrl(e)]

\* response_model=List[PubMedResult]: title: str rejects None, the
\* Optional[str] fields accept it
PubMedResultValid(r) == r.title # Absent

ResponseValid(rs) == \A k \in 1..Len(rs) : PubMedResultValid(rs[k])

\* a handler that returns the empty list as it is
ScrapeFinishNoCheck(rs) ==
    IF ~ResponseValid(rs)
    THEN [status |-> 500, detail |-> "Internal Server Error", body |-> <<>>]
    ELSE [status |-> 200, detail |-> "", body |-> rs]

\* main.py:138-140 and the response_model validation of the return value
ScrapeFinish(rs) ==
    IF rs = <<>> THEN [status |-> 404, detail |-> "No results found.", body |-> <<>>]
    ELSE IF ~ResponseValid(rs)
         THEN [status |-> 500, detail |-> "Internal Server Error", body |-> <<>>]
         ELSE [status |-> 200, detail |-> "", body |-> rs]

\* a handler that forgets the slice
TruncateNone(as) == as

\* articles[:8]
Truncate(as) == Prefix(as, PageCap)


----------------------------------------------------------------------------
\* api/index.py scrape_papers: one paper per PubmedArticle of the efetch reply

\* the ids esearch returns for retmax = max_results: the first matches
IdList(p, c) == [k \in 1..Min(c, Len(p)) |-> p[k].id]

\* the PubmedArticle elements efetch returns for the ids asked for
EFetch(p, ids) == [k \in 1..Len(ids) |-> p[ids[k]]]

PaperTitle(e) ==
    IF "title" \in e.missing THEN <<"No title available">> ELSE Text("title", e)

PaperAbstract(e) ==
    IF "abstract" \in e.missing THEN <<"No abstract available">> ELSE Text("abstract", e)

\* the "First Last" strings of the AuthorList, [] without an AuthorList
PaperAuthors(e) ==
    IF "authors" \in e.missing THEN <<>> ELSE <<Text("authors", e)>>

Paper(e) == [title |-> PaperTitle(e), abstract |-> PaperAbstract(e),
             authors |-> PaperAuthors(e)]

\* api/index.py:74-98
Papers(as) == [k \in 1..Len(as) |-> Paper(as[k])]

SearchReplies == {"ok", "nokey", "noidlist", "exception", "silent"}
FetchReplies == {"ok", "exception", "silent"}

----------------------------------------------------------------------------
\* The model's reply, as a sequence of tokens: "{" and "}", a member key
\* "name": (with the comma before it), a scalar value, or other text.

LBrace == <<"{">>
RBrace == <<"}">>
Prose == <<"p">>
Key(name) == <<"k", name>>
Value(kind, n) == <<"v", kind, n>>

\* the fields of AnalyzeResponse, in the order the prompt lists them
KeyOrder == <<"summary", "evidence_gaps", "research_suggestions",
              "confidence_score", "priorities", "note">>
Required == {"summary", "evidence_gaps", "research_suggestions",
             "confidence_score", "priorities"}
Keys == Required \cup {"note"}

\* JSON values by kind: a string, a string that reads as a number, a number,
\* an array of strings, null, an object
Kinds == {"str", "numstr", "num", "list", "null", "obj"}

KeyId(f) == CHOOSE k \in 1..Len(KeyOrder) : KeyOrder[k] = f

\* the reply the prompt asks for
Canon ==
    [f \in Required |->
        [kind |-> IF f = "summary" THEN "str"
                  ELSE IF f = "confidence_score" THEN "num" ELSE "list",
         n |-> KeyId(f)]]

\* Canon with the members of D removed, replaced or (for "note") added
Deviate(D, kindOf) ==
    [f \in (Required \ {g \in D : kindOf[g] = "gone"})
            \cup {g \in D : g = "note" /\ kindOf[g] # "gone"} |->
        IF f \in D THEN [kind |-> kindOf[f], n |-> KeyId(f)] ELSE Canon[f]]

Datas(k) ==
    UNION {{Deviate(D, kindOf) : kindOf \in [D -> Kinds \cup {"gone"}]}
           : D \in KSubsets(Keys, k)}

RECURSIVE SeqsUpTo(_, _)
\* the sequences over S of length at most n
SeqsUpTo(S, n) ==
    IF n = 0 THEN {<<>>}
    ELSE LET P == SeqsUpTo(S, n - 1)
         IN  P \cup {Append(p, x) : p \in P, x \in S}

Affixes(n) == SeqsUpTo({Prose, LBrace, RBrace}, n)

SerializeValue(v) ==
    IF v.kind = "obj" THEN <<LBrace, RBrace>> ELSE <<Value(v.kind, v.n)>>

RECURSIVE SerializeMembers(_, _)
SerializeMembers(d, k) ==
    IF k > Len(KeyOrder) THEN <<>>
    ELSE (IF KeyOrder[k] \in DOMAIN d
          THEN <<Key(KeyOrder[k])>> \o SerializeValue(d[KeyOrder[k]])
          ELSE <<>>) \o SerializeMembers(d, k + 1)

\* the JSON text of the object d
Serialize(d) == <<LBrace>> \o SerializeMembers(d, 1) \o <<RBrace>>

Defects == {"none", "prose", "unclosed", "novalue", "noobject"}

RemoveAt(s, k) == SubSeq(s, 1, k - 1) \o SubSeq(s, k + 1, Len(s))

\* a reply whose object is damaged: text inside the braces, the closing brace
\* left out, the token before the closing brace left out, or no object at all
Damage(s, defect) ==
    CASE defect = "none" -> s
      [] defect = "prose" -> <<s[1], Prose>> \o Tail(s)
      [] defect = "unclosed" -> SubSeq(s, 1, Len(s) - 1)
      [] defect = "novalue" -> RemoveAt(s, Len(s) - 1)
      [] defect = "noobject" -> <<>>

Render(r) == r.pre \o Damage(Serialize(r.data), r.defect) \o r.post

\* the replies of the model: text, an object close to the one asked for, text
Replies(affix, bad) ==
    {[pre |-> a, data |-> d, post |-> b, defect |-> "none"] :
        a \in Affixes(affix), d \in Datas(bad), b \in Affixes(affix)}
    \cup
    {[pre |-> a, data |-> Canon, post |-> b, defect |-> x] :
        a \in Affixes(affix), x \in Defects \ {"none"}, b \in Affixes(affix)}

NoReply == [pre |-> <<>>, data |-> Canon, post |-> <<>>, defect |-> "noobject"]

----------------------------------------------------------------------------
\* main.py:91-94: the span, the JSON parse and the schema

NoMatch == <<>>

\* the last position after start that holds "}", 0 if none
LastClose(s, start) ==
    LET E == {j \in (start + 1)..Len(s) : s[j] = RBrace}
    IN  IF E = {} THEN 0 ELSE CHOOSE j \in E : \A l \in E : l <= j

\* the first position after start that holds "}", 0 if none
FirstClose(s, start) ==
    LET E == {j \in (start + 1)..Len(s) : s[j] = RBrace}
    IN  IF E = {} THEN 0 ELSE CHOOSE j \in E : \A l \in E : j <= l

RECURSIVE SearchFrom(_, _)
\* a regular expression search that tries each start position in turn and, at
\* a "{", extends the match as far as ".*" can go before a "}"
SearchFrom(s, start) ==
    IF start > Len(s) THEN NoMatch
    ELSE IF s[start] = LBrace /\ LastClose(s, start) # 0
         THEN SubSeq(s, start, LastClose(s, start))
         ELSE SearchFrom(s, start + 1)

RECURSIVE SearchFromLazy(_, _)
\* the same search with the non-greedy ".*?"
SearchFromLazy(s, start) ==
    IF start > Len(s) THEN NoMatch
    ELSE IF s[start] = LBrace /\ FirstClose(s, start) # 0
         THEN SubSeq(s, start, FirstClose(s, start))
         ELSE SearchFromLazy(s, start + 1)

ReSearchLazy(s) == SearchFromLazy(s, 1)

\* re.search(r'\{.*\}', content, re.DOTALL), main.py:91
ReSearch(s) == SearchFrom(s, 1)

ParseError == [ok |-> FALSE, next |-> 0, data |-> <<>>]

RECURSIVE ParseMembers(_, _, _)
RECURSIVE ParseValue(_, _)

\* the members of an object from position j on, up to its closing brace; a
\* repeated key keeps its last value
ParseMembers(s, j, acc) ==
    IF j > Len(s) THEN ParseError
    ELSE IF s[j] = RBrace THEN [ok |-> TRUE, next |-> j + 1, data |-> acc]
    ELSE IF s[j][1] = "k"
         THEN LET v == ParseValue(s, j + 1)
              IN  IF ~v.ok THEN ParseError
                  ELSE ParseMembers(s, v.next,
                           [f \in DOMAIN acc \cup {s[j][2]} |->
                               IF f = s[j][2] THEN v.data ELSE acc[f]])
         ELSE ParseError

\* a value at position j: a scalar, or an object
ParseValue(s, j) ==
    IF j > Len(s) THEN ParseError
    ELSE IF s[j][1] = "v"
         THEN [ok |-> TRUE, next |-> j + 1, data |-> [kind |-> s[j][2], n |-> s[j][3]]]
    ELSE IF s[j] = LBrace
         THEN LET o == ParseMembers(s, j + 1, <<>>)
              IN  IF o.ok THEN [ok |-> TRUE, next |-> o.next,
                                data |-> [kind |-> "obj", n |-> 0]]
                  ELSE ParseError
         ELSE ParseError

\* json.loads(match.group(0)), main.py:93: the text is one object and nothing
\* follows it
JsonLoads(s) ==
    IF s = <<>> \/ s[1] # LBrace THEN ParseError
    ELSE LET o == ParseMembers(s, 2, <<>>)
         IN  IF o.ok /\ o.next = Len(s) + 1 THEN o ELSE ParseError

\* the declared type of a field of AnalyzeResponse, main.py:48-53
Declared(f) ==
    IF f = "summary" THEN "str"
    ELSE IF f = "confidence_score" THEN "float" ELSE "List[str]"

\* the JSON values a field takes: its own type, and what the schema library
\* converts to it (a numeric string to float; a number to str before version 2)
Accepts(f, kind) ==
    CASE f = "summary" ->
           kind \in {"str", "numstr"} \/ (kind = "num" /\ pydantic = 1)
      [] f = "confidence_score" -> kind \in {"num", "numstr"}
      [] OTHER -> kind = "list"

\* a schema that takes whatever members the reply has
AnalyzeResponseAny(data) ==
    [ok |-> TRUE,
     value |-> [f \in DOMAIN data \cap Required |->
                   [type |-> Declared(f), n |-> data[f].n]]]

\* AnalyzeResponse(**data), main.py:94: every field is required, members the
\* schema does not name are ignored
AnalyzeResponse(data) ==
    IF \A f \in Required : f \in DOMAIN data /\ Accepts(f, data[f].kind)
    THEN [ok |-> TRUE,
          value |-> [f \in Required |-> [type |-> Declared(f), n |-> data[f].n]]]
    ELSE [ok |-> FALSE, value |-> <<>>]

\* main.py:88-99 on the reply text
ParseAnalysis(text) ==
    LET match == ReSearch(text) IN
    IF match = NoMatch
    THEN \* HTTPException(500) at line 96, caught at line 97
         [status |-> 500, detail |-> "OpenAI analysis failed", body |-> <<>>]
    ELSE LET loaded == JsonLoads(match) IN
         IF ~loaded.ok
         THEN [status |-> 500, detail |-> "OpenAI analysis failed", body |-> <<>>]
         ELSE LET built == AnalyzeResponse(loaded.data) IN
              IF ~built.ok
              THEN [status |-> 500, detail |-> "OpenAI analysis failed", body |-> <<>>]
              ELSE [status |-> 200, detail |-> "", body |-> <<built.value>>]

NoRequest == [query |-> "", max_results |-> <<>>]
NoUpstream == [search |-> "ok", fetch |-> "ok", page |-> <<>>]
NoTwin == [pc |-> "idle", cap |-> 0, page |-> <<>>, articles |-> <<>>,
           status |-> 0, error |-> "", body |-> <<>>, calls |-> {}]

----------------------------------------------------------------------------
Init ==
    /\ impl = "none"
    /\ pc = "idle"
    /\ cap = 0
    /\ page = <<>>
    /\ articles = <<>>
    /\ idx = 0
    /\ results = <<>>
    /\ status = 0
    /\ detail = ""
    /\ body = <<>>
    /\ calls = {}
    /\ fetchFailed = {}
    /\ apiKey = TRUE
    /\ papers = 0
    /\ content = <<>>
    /\ cause = "none"
    /\ prev = <<>>
    /\ sent = NoReply
    /\ pydantic = 2
    /\ request = NoRequest
    /\ upstream = NoUpstream
    /\ twin = NoTwin

Respond(r) ==
    /\ status' = r.status
    /\ detail' = r.detail
    /\ body' = r.body
    /\ pc' = "done"

Fail(code, text) == Respond([status |-> code, detail |-> text, body |-> <<>>])

Call(kind, timeout) == calls' = calls \cup {[kind |-> kind, timeout |-> timeout]}

\* main.py:102-105: the request arrives and the search page is requested
scrape_pubmed ==
    /\ pc = "idle"
    /\ impl' = "main"
    /\ \E c \in 0..MaxCap : cap' = c
    /\ \E p \in Pages : page' = p
    /\ Call("search", Explicit(Timeout))
    /\ pc' = "search"
    /\ UNCHANGED <<articles, idx, results, status, detail, body, fetchFailed,
                   cause>>
    /\ UNCHANGED <<analyzeVars, pairVars>>

\* main.py:105-106: the search fetch fails or answers a non-2xx status; the
\* exception leaves the handler
PubmedSearchFails ==
    /\ pc = "search" /\ impl = "main"
    /\ Fail(500, "Internal Server Error")
    /\ cause' = "UpstreamError"
    /\ UNCHANGED <<impl, calls, scrapeVars, analyzeVars, pairVars>>

\* main.py:107-110 (and 138-140 when the page has no entry)
PubmedSearchOk ==
    /\ pc = "search" /\ impl = "main"
    /\ articles' = Truncate(page)
    /\ results' = <<>>
    /\ idx' = 1
    /\ IF Truncate(page) = <<>>
       THEN Respond(ScrapeFinish(<<>>))
       ELSE pc' = "loop" /\ UNCHANGED <<status, detail, body>>
    /\ UNCHANGED <<impl, cap, page, calls, fetchFailed, cause, analyzeVars, pairVars>>

\* main.py:110-137: one iteration; after the last one, main.py:138-140
PubmedArticle ==
    /\ pc = "loop" /\ impl = "main"
    /\ idx <= Len(articles)
    /\ LET e == articles[idx] IN
       \E outcome \in FetchOutcomes :
          /\ outcome # "ok" => Cardinality(fetchFailed) < MaxFaults
          /\ LET fetched == ExtractUrl(e) # Absent
                 abstract == IF fetched THEN FetchAbstract(e, outcome) ELSE Absent
                 rs == Append(results, Record(e, abstract))
             IN  /\ ~fetched => outcome = "ok"
                 /\ calls' = IF fetched
                             THEN calls \cup {[kind |-> "abstract", timeout |-> Explicit(Timeout)]}
                             ELSE calls
                 /\ fetchFailed' = IF fetched /\ outcome # "ok"
                                   THEN fetchFailed \cup {e.id}
                                   ELSE fetchFailed
                 /\ IF fetched /\ FetchRaises(outcome)
                    THEN /\ Fail(500, "Internal Server Error")
                         /\ cause' = "UpstreamError"
                         /\ UNCHANGED <<results, idx>>
                    ELSE /\ results' = rs
                         /\ idx' = idx + 1
                         /\ UNCHANGED cause
                         /\ IF idx = Len(articles)
                            THEN Respond(ScrapeFinish(rs))
                            ELSE UNCHANGED <<pc, status, detail, body>>
    /\ UNCHANGED <<impl, cap, page, articles, analyzeVars, pairVars>>

\* api/index.py:38-52: a request for max_results c whose query matches the
\* entries p arrives and esearch is requested, no timeout
PapersRequest(c, p) ==
    /\ pc = "idle"
    /\ impl' = "index"
    /\ cap' = c
    /\ page' = p
    /\ Call("search", NoTimeout)
    /\ pc' = "search"
    /\ UNCHANGED <<articles, idx, results, status, detail, body, fetchFailed,
                   cause>>
    /\ UNCHANGED analyzeVars

scrape_papers ==
    /\ \E c \in 0..MaxCap : \E p \in Pages : PapersRequest(c, p)
    /\ UNCHANGED pairVars

\* api/index.py:52-71: the esearch reply, up to the efetch request
ESearchStep(reply) ==
    /\ pc = "search" /\ impl = "index"
    /\    CASE reply = "silent" ->
                 \* requests.get without timeout never returns
                 /\ pc' = "hung"
                 /\ UNCHANGED <<status, detail, body, calls, articles, cause>>
            [] reply = "exception" ->
                 /\ Fail(500, "str(e)")
                 /\ cause' = "UpstreamError"
                 /\ UNCHANGED <<calls, articles>>
            [] reply = "nokey" ->
                 \* HTTPException(500) raised in the try, caught at line 102
                 /\ Fail(500, "str(e)")
                 /\ cause' = "UpstreamError"
                 /\ UNCHANGED <<calls, articles>>
            [] reply = "noidlist" ->
                 \* KeyError at line 58
                 /\ Fail(500, "str(e)")
                 /\ cause' = "UpstreamError"
                 /\ UNCHANGED <<calls, articles>>
            [] reply = "ok" ->
                 LET id_list == IdList(page, cap) IN
                 IF id_list = <<>>
                 THEN /\ Respond([status |-> 200, detail |-> "", body |-> <<>>])
                      /\ UNCHANGED <<calls, articles, cause>>
                 ELSE /\ Call("fetch", NoTimeout)
                      /\ articles' = EFetch(page, id_list)
                      /\ pc' = "fetch"
                      /\ UNCHANGED <<status, detail, body, cause>>
    /\ UNCHANGED <<impl, cap, page, idx, results, fetchFailed, analyzeVars>>

ESearchReply ==
    /\ \E reply \in SearchReplies : ESearchStep(reply)
    /\ UNCHANGED pairVars

\* api/index.py:71-103: the efetch reply and the article loop
EFetchStep(reply) ==
    /\ pc = "fetch" /\ impl = "index"
    /\    CASE reply = "silent" ->
                 /\ pc' = "hung"
                 /\ UNCHANGED <<status, detail, body, results, cause>>
            [] reply = "exception" ->
                 /\ Fail(500, "str(e)")
                 /\ cause' = "UpstreamError"
                 /\ UNCHANGED results
            [] reply = "ok" ->
                 /\ results' = Papers(articles)
                 /\ Respond([status |-> 200, detail |-> "", body |-> Papers(articles)])
                 /\ UNCHANGED cause
    /\ UNCHANGED <<impl, cap, page, articles, idx, calls, fetchFailed, analyzeVars>>

EFetchReply ==
    /\ \E reply \in FetchReplies : EFetchStep(reply)
    /\ UNCHANGED pairVars

Next ==
    \/ scrape_pubmed
    \/ PubmedSearchFails
    \/ PubmedSearchOk
    \/ PubmedArticle
    \/ scrape_papers
    \/ ESearchReply
    \/ EFetchReply

Spec == Init /\ [][Next]_vars

----------------------------------------------------------------------------
\* The analyze handlers

ModelCall == [kind |-> "model", timeout |-> LibDefault]

\* the replies drawn while the handlers' error paths are explored
FewReplies == Replies(0, 1)

Reset ==
    /\ status' = 0
    /\ detail' = ""
    /\ body' = <<>>
    /\ cause' = "none"
    /\ calls' = {}

\* if not openai_api_key, main.py:58
KeyMissing(key) == ~key

\* except Exception as e: raise HTTPException(status_code=500, detail=str(e)),
\* api/index.py:151-152, around an HTTPException raised in the try block
Rewrap(code) == 500

\* main.py:56-84: the request arrives; without a key it is refused, else the
\* prompt is composed and the model is called
analyze_evidence_gap ==
    /\ pc = "idle" /\ impl = "main"
    /\ \E n \in 0..MaxPapers : papers' = n
    /\ IF KeyMissing(apiKey)
       THEN /\ Fail(500, "OpenAI API key not set.")
            /\ cause' = "ConfigurationError"
            /\ UNCHANGED <<calls, sent, content>>
       ELSE /\ calls' = calls \cup {ModelCall}
            /\ \E r \in FewReplies : sent' = r /\ content' = Render(r)
            /\ pc' = "model"
            /\ UNCHANGED <<status, detail, body, cause>>
    /\ UNCHANGED <<impl, scrapeVars, apiKey, prev, pydantic, pairVars>>

\* main.py:78-99: the model call returns or raises
AnalysisReply ==
    /\ pc = "model" /\ impl = "main"
    /\ \E outcome \in {"ok", "exception"} :
          IF outcome = "exception"
          THEN /\ Fail(500, "OpenAI analysis failed")
               /\ cause' = "UpstreamError"
          ELSE /\ Respond(ParseAnalysis(content))
               /\ cause' = IF ParseAnalysis(content).status = 200
                           THEN "none" ELSE "MalformedResponse"
    /\ UNCHANGED <<impl, calls, scrapeVars, analyzeVars, pairVars>>

\* api/index.py:106-142: the request arrives; an empty list raises a 400 that
\* the handler's own except clause answers as a 500
analyze_papers ==
    /\ pc = "idle" /\ impl = "index"
    /\ \E n \in 0..MaxPapers :
          /\ papers' = n
          /\ IF n = 0
             THEN /\ Fail(Rewrap(400), "str(e)")
                  /\ cause' = "InvalidInput"
                  /\ UNCHANGED <<calls, sent, content>>
             ELSE /\ calls' = calls \cup {ModelCall}
                  /\ \E r \in FewReplies : sent' = r /\ content' = Render(r)
                  /\ pc' = "model"
                  /\ UNCHANGED <<status, detail, body, cause>>
    /\ UNCHANGED <<impl, scrapeVars, apiKey, prev, pydantic, pairVars>>

\* api/analyze.py:10-58: the request arrives; an empty list is answered 400
do_POST ==
    /\ pc = "idle" /\ impl = "handler"
    /\ \E n \in 0..MaxPapers :
          /\ papers' = n
          /\ IF n = 0
             THEN /\ Fail(400, "No papers provided")
                  /\ cause' = "InvalidInput"
                  /\ UNCHANGED <<calls, sent, content>>
             ELSE /\ calls' = calls \cup {ModelCall}
                  /\ \E r \in FewReplies : sent' = r /\ content' = Render(r)
                  /\ pc' = "model"
                  /\ UNCHANGED <<status, detail, body, cause>>
    /\ UNCHANGED <<impl, scrapeVars, apiKey, prev, pydantic, pairVars>>

\* api/index.py:134-152 and api/analyze.py:50-79: the model call returns or
\* raises; without a key it can only raise
TextReply ==
    /\ pc = "model" /\ impl \in {"index", "handler"}
    /\ \E outcome \in {"ok", "exception"} :
          /\ ~apiKey => outcome = "exception"
          /\ IF outcome = "exception"
             THEN /\ Fail(500, "str(e)")
                  /\ cause' = IF apiKey THEN "UpstreamError" ELSE "ConfigurationError"
             ELSE /\ Respond([status |-> 200, detail |-> "",
                              body |-> <<[analysis |-> content,
                                          papers_analyzed |-> papers]>>])
                  /\ cause' = "none"
    /\ UNCHANGED <<impl, calls, scrapeVars, analyzeVars, pairVars>>

\* the response is sent; the process waits for its next request
NextRequest ==
    /\ pc = "done"
    /\ pc' = "idle"
    /\ prev' = IF status = 200 THEN prev
               ELSE <<[cause |-> cause, status |-> status, detail |-> detail]>>
    /\ Reset
    /\ papers' = 0
    /\ sent' = NoReply
    /\ content' = <<>>
    /\ UNCHANGED <<impl, scrapeVars, apiKey, pydantic, pairVars>>

InitAnalyze ==
    /\ impl \in {"main", "index", "handler"}
    /\ apiKey \in BOOLEAN
    /\ pydantic \in {1, 2}
    /\ request = NoRequest
    /\ upstream = NoUpstream
    /\ twin = NoTwin
    /\ pc = "idle"
    /\ cap = 0
    /\ page = <<>>
    /\ articles = <<>>
    /\ idx = 0
    /\ results = <<>>
    /\ status = 0
    /\ detail = ""
    /\ body = <<>>
    /\ calls = {}
    /\ fetchFailed = {}
    /\ papers = 0
    /\ content = <<>>
    /\ cause = "none"
    /\ prev = <<>>
    /\ sent = NoReply

NextAnalyze ==
    \/ analyze_evidence_gap
    \/ AnalysisReply
    \/ analyze_papers
    \/ do_POST
    \/ TextReply
    \/ NextRequest

SpecAnalyze == InitAnalyze /\ [][NextAnalyze]_vars

\* analyze_evidence_gap has called the model, which answers any of the replies
InitParse ==
    /\ impl = "main"
    /\ apiKey = TRUE
    /\ pydantic \in {1, 2}
    /\ request = NoRequest
    /\ upstream = NoUpstream
    /\ twin = NoTwin
    /\ pc = "model"
    /\ cap = 0
    /\ page = <<>>
    /\ articles = <<>>
    /\ idx = 0
    /\ results = <<>>
    /\ status = 0
    /\ detail = ""
    /\ body = <<>>
    /\ calls = {ModelCall}
    /\ fetchFailed = {}
    /\ papers = 1
    /\ sent \in Replies(MaxAffix, MaxBadFields)
    /\ content = Render(sent)
    /\ cause = "none"
    /\ prev = <<>>

NextParse == AnalysisReply

SpecParse == InitParse /\ [][NextParse]_vars

----------------------------------------------------------------------------
\* api/scrape.py handler.do_POST, served next to api/index.py scrape_papers:
\* one caller sends the same query and max_results to both, and E-utilities
\* answers both the same way.

\* max_results: int = 5, api/index.py:28
DefaultMaxResults == 5
\* request_data.get('max_results', 5), api/scrape.py:20
HandlerDefaultMax == 5

\* dict.get(key, default)
Get(d, key, default) == IF key \in DOMAIN d THEN d[key] ELSE default

\* the JSON body that carries the request, the query under the name field
BodyFor(field) ==
    IF request.max_results = <<>>
    THEN [f \in {field} |-> request.query]
    ELSE [f \in {field, "max_results"} |->
             IF f = field THEN request.query ELSE request.max_results[1]]

\* the entries E-utilities matches to a search term
PageFor(term) == IF term = request.query THEN upstream.page ELSE <<>>

\* request.query and request.max_results of ScrapeRequest, api/index.py:26-28
IndexQuery(b) == b["query"]
IndexMaxResults(b) == Get(b, "max_results", DefaultMaxResults)

\* api/scrape.py:19-20
HandlerQuery(b) == Get(b, "question", "")
HandlerMaxResults(b) == Get(b, "max_results", HandlerDefaultMax)

\* api/scrape.py:69-73
HandlerTitle(e) ==
    IF "title" \in e.missing THEN <<"No title available">> ELSE Text("title", e)

\* a handler that leaves a missing abstract empty, as main.py does
HandlerAbstractNone(e) ==
    IF "abstract" \in e.missing THEN Absent ELSE Text("abstract", e)

\* api/scrape.py:70-74
HandlerAbstract(e) ==
    IF "abstract" \in e.missing THEN <<"No abstract available">> ELSE Text("abstract", e)

\* api/scrape.py:76-82
HandlerAuthors(e) ==
    IF "authors" \in e.missing THEN <<>> ELSE <<Text("authors", e)>>

\* api/scrape.py:84-88
HandlerPaper(e) == [title |-> HandlerTitle(e), abstract |-> HandlerAbstract(e),
                    authors |-> HandlerAuthors(e)]

\* api/scrape.py:66-90
HandlerPapers(as) == [k \in 1..Len(as) |-> HandlerPaper(as[k])]

\* send_response(code) and the JSON written after it
Send(code, error, papers_) ==
    [twin EXCEPT !.pc = "done", !.status = code, !.error = error, !.body = papers_]

\* api/scrape.py:12-34: the request arrives and esearch is requested, no timeout
HandlerRequest ==
    /\ twin.pc = "idle"
    /\ twin' = [twin EXCEPT
                  !.pc = "search",
                  !.cap = HandlerMaxResults(BodyFor("question")),
                  !.page = PageFor(HandlerQuery(BodyFor("question"))),
                  !.calls = @ \cup {[kind |-> "search", timeout |-> NoTimeout]}]
    /\ UNCHANGED <<impl, pc, status, detail, body, calls, cause, scrapeVars,
                   analyzeVars, request, upstream>>

\* api/scrape.py:34-63: the esearch reply, up to the efetch request
HandlerSearchReply ==
    /\ twin.pc = "search"
    /\ twin' =
         CASE upstream.search = "silent" -> [twin EXCEPT !.pc = "hung"]
           [] upstream.search = "exception" -> Send(500, "str(e)", <<>>)
           [] upstream.search = "nokey" -> Send(500, "Failed to search PubMed", <<>>)
           [] upstream.search = "noidlist" -> Send(500, "str(e)", <<>>)
           [] upstream.search = "ok" ->
                LET id_list == IdList(twin.page, twin.cap) IN
                IF id_list = <<>>
                THEN Send(200, "", <<>>)
                ELSE [twin EXCEPT
                        !.pc = "fetch",
                        !.articles = EFetch(twin.page, id_list),
                        !.calls = @ \cup {[kind |-> "fetch", timeout |-> NoTimeout]}]
    /\ UNCHANGED <<impl, pc, status, detail, body, calls, cause, scrapeVars,
                   analyzeVars, request, upstream>>

\* api/scrape.py:63-104: the efetch reply and the article loop
HandlerFetchReply ==
    /\ twin.pc = "fetch"
    /\ twin' =
         CASE upstream.fetch = "silent" -> [twin EXCEPT !.pc = "hung"]
           [] upstream.fetch = "exception" -> Send(500, "str(e)", <<>>)
           [] upstream.fetch = "ok" -> Send(200, "", HandlerPapers(twin.articles))
    /\ UNCHANGED <<impl, pc, status, detail, body, calls, cause, scrapeVars,
                   analyzeVars, request, upstream>>

\* api/index.py scrape_papers on the same request and the same replies
IndexRequest ==
    /\ PapersRequest(IndexMaxResults(BodyFor("query")),
                     PageFor(IndexQuery(BodyFor("query"))))
    /\ UNCHANGED pairVars

IndexSearchReply ==
    /\ ESearchStep(upstream.search)
    /\ UNCHANGED pairVars

IndexFetchReply ==
    /\ EFetchStep(upstream.fetch)
    /\ UNCHANGED pairVars

\* the pages short enough for max_results to cut them or not
ShortPages == {p \in Pages : Len(p) <= MaxCap + 1}

\* a caller's request and what E-utilities will answer to it
InitPair ==
    /\ request \in [query : {"statins"},
                    max_results : {<<>>} \cup {<<c>> : c \in 0..MaxCap}]
    /\ upstream \in [search : SearchReplies, fetch : FetchReplies, page : ShortPages]
    /\ twin = NoTwin
    /\ impl = "none"
    /\ pc = "idle"
    /\ cap = 0
    /\ page = <<>>
    /\ articles = <<>>
    /\ idx = 0
    /\ results = <<>>
    /\ status = 0
    /\ detail = ""
    /\ body = <<>>
    /\ calls = {}
    /\ fetchFailed = {}
    /\ apiKey = TRUE
    /\ papers = 0
    /\ content = <<>>
    /\ cause = "none"
    /\ prev = <<>>
    /\ sent = NoReply
    /\ pydantic = 2

NextPair ==
    \/ IndexRequest
    \/ IndexSearchReply
    \/ IndexFetchReply
    \/ HandlerRequest
    \/ HandlerSearchReply
    \/ HandlerFetchReply

SpecPair == InitPair /\ [][NextPair]_vars

----------------------------------------------------------------------------
\* Properties of the scrape handlers

Done == pc = "done"

\* the record the handler returns for entry e, whatever its abstract
FromEntry(r, e) ==
    IF impl = "main"
    THEN /\ r.title = ExtractTitle(e)
         /\ r.authors = ExtractAuthors(e)
         /\ r.publication_date = ExtractDate(e)
         /\ r.url = ExtractUrl(e)
         /\ r.pmid = ExtractPmid(e)
    ELSE r = Paper(e)

\* the returned records are the first n entries of the page, in order
FirstOfPage(n) ==
    /\ Len(body) = n
    /\ \A k \in 1..Len(body) : k <= Len(page) /\ FromEntry(body[k], page[k])

\* C1 as stated: a successful scrape returns at most max_results records, the
\* first records of the page in document order.
C1_CapRespected ==
    (Done /\ status = 200) => FirstOfPage(Min(cap, Len(page)))

\* C1 amended: scrape_pubmed returns the first min(8, n) entries of the page in
\* document order whatever max_results is; scrape_papers returns the articles
\* of the first min(max_results, n) ids, the ids esearch yields for
\* retmax = max_results, in document order.
C1_FixedCap ==
    (Done /\ status = 200) =>
        FirstOfPage(IF impl = "main" THEN Min(PageCap, Len(page))
                                     ELSE Min(cap, Len(page)))

C1_Witness ==
    /\ Done /\ status = 200 /\ impl = "main"
    /\ Len(page) > PageCap /\ Len(body) = PageCap /\ cap < PageCap

\* the upstream search succeeded and yielded no result entry
ZeroEntries ==
    /\ Done /\ cause # "UpstreamError"
    /\ IF impl = "main" THEN page = <<>> ELSE IdList(page, cap) = <<>>

\* C2 as stated: a search that succeeds with zero result entries ends in a
\* successful response carrying the empty sequence.
C2_EmptyIsSuccess == ZeroEntries => (status = 200 /\ body = <<>>)

\* C2 amended: with zero result entries scrape_papers answers 200 with an empty
\* paper list, and scrape_pubmed answers 404 "No results found.".
C2_EmptyByHandler ==
    ZeroEntries =>
        IF impl = "main"
        THEN status = 404 /\ detail = "No results found." /\ body = <<>>
        ELSE status = 200 /\ body = <<>>

C2_Witness == ZeroEntries /\ impl = "main" /\ status = 404

\* C4: a request in which an abstract fetch failed still succeeds: the first
\* eight entries are all returned, the entries whose fetch failed with an absent
\* abstract, the others with the abstract their page holds.
C4_FetchFailureTolerated ==
    (Done /\ impl = "main" /\ fetchFailed # {}) =>
        /\ status = 200
        /\ FirstOfPage(Min(PageCap, Len(page)))
        /\ \A k \in 1..Len(body) :
              body[k].abstract = IF page[k].id \in fetchFailed
                                 THEN Absent
                                 ELSE AbstractOf(page[k], "ok")

\* C5: an entry that lacks its title, link, authors or citation is returned
\* with that field absent, and the request succeeds.
C5_MissingFieldTolerated ==
    (Done /\ impl = "main" /\ cause # "UpstreamError" /\ page # <<>>) =>
        /\ status = 200
        /\ FirstOfPage(Min(PageCap, Len(page)))

\* C9: every outbound call carries an explicit timeout and no request waits
\* forever for an upstream.
C9_AllCallsTimed ==
    /\ \A c \in calls : c.timeout[1] = "explicit"
    /\ pc # "hung"

----------------------------------------------------------------------------
\* Properties of the analyze handlers

Analyzing == pc # "idle" /\ impl \in {"main", "index", "handler"}

\* C3: a request with no records is answered 400 and the model is never called
\* for it (stated for a process that has its API key, so that no other refusal
\* comes first).
C3_EmptyRejected ==
    (Analyzing /\ papers = 0 /\ apiKey) =>
        /\ ModelCall \notin calls
        /\ Done => status = 400

\* C7: without the API key a request is refused as a configuration error and
\* the model is never called for it.
C7_NoKeyFailsFast ==
    (Analyzing /\ ~apiKey /\ papers > 0) =>
        /\ ModelCall \notin calls
        /\ Done => (status = 500 /\ detail = "OpenAI API key not set.")

\* C8: two requests that fail for different kinds answer different codes, and
\* an error raised in the handler keeps its code on the way out.
C8_KindsDistinct ==
    (Done /\ status # 200 /\ impl \in {"main", "index", "handler"}) =>
        /\ cause = "InvalidInput" => status = 400
        /\ (prev # <<>> /\ prev[1].cause # cause) =>
               <<prev[1].status, prev[1].detail>> # <<status, detail>>

\* the model answered the request of analyze_evidence_gap
Replied == Done /\ impl = "main" /\ cause # "UpstreamError"

ProseOnly(s) == \A k \in 1..Len(s) : s[k] = Prose

\* the reply is one object as rendered, with nothing but text around it
Clean == ProseOnly(sent.pre) /\ ProseOnly(sent.post)

Opens(s) == {k \in 1..Len(s) : s[k] = LBrace}
Closes(s) == {k \in 1..Len(s) : s[k] = RBrace}
FirstOpen(s) == CHOOSE k \in Opens(s) : \A l \in Opens(s) : k <= l
LastClosing(s) == CHOOSE k \in Closes(s) : \A l \in Closes(s) : l <= k

HasSpan(s) == Opens(s) # {} /\ Closes(s) # {} /\ FirstOpen(s) < LastClosing(s)

\* the text from the first "{" to the last "}"
SpanOf(s) == SubSeq(s, FirstOpen(s), LastClosing(s))

FitsSchema(d) == \A f \in Required : f \in DOMAIN d /\ Accepts(f, d[f].kind)

Expected(d) == [f \in Required |-> [type |-> Declared(f), n |-> d[f].n]]

Malformed == status = 500 /\ detail = "OpenAI analysis failed" /\ body = <<>>

\* C6: the reply is read from its first "{" to its last "}".  Without such a
\* span, with text inside the span or with a damaged object the call fails;
\* an object that fits the schema, with text around it, is returned field by
\* field; and whatever is returned is what the span holds.
C6_ParseAnalysis ==
    Replied =>
        /\ ~HasSpan(content) => Malformed
        /\ (HasSpan(content) /\ \E k \in 1..Len(SpanOf(content)) :
                                    SpanOf(content)[k] = Prose) => Malformed
        /\ (Clean /\ sent.defect # "none") => Malformed
        /\ (Clean /\ sent.defect = "none" /\ FitsSchema(sent.data)) =>
               (status = 200 /\ body = <<Expected(sent.data)>>)
        /\ status = 200 =>
               /\ HasSpan(content)
               /\ JsonLoads(SpanOf(content)).ok
               /\ body = <<Expected(JsonLoads(SpanOf(content)).data)>>

C6_Witness ==
    /\ Replied /\ status = 200
    /\ sent.pre = <<Prose>> /\ sent.post = <<Prose>>
    /\ "note" \in DOMAIN sent.data

----------------------------------------------------------------------------
\* Equivalence of the two E-utilities scrape handlers

Ended(p) == p \in {"done", "hung"}

\* C11: on the same query, the same max_results and the same upstream replies
\* scrape_papers and handler.do_POST end alike: both answer, with the same
\* HTTP status and the same list of papers in the same order, or both wait
\* forever for the same reply.
C11_SameResponse ==
    (Ended(pc) /\ Ended(twin.pc)) =>
        /\ pc = twin.pc
        /\ status = twin.status
        /\ body = twin.body

C11_Witness ==
    /\ pc = "done" /\ twin.pc = "done"
    /\ status = 200 /\ twin.status = 200
    /\ Len(body) > 1 /\ Len(body) < Len(upstream.page)
    /\ \E k \in 1..Len(body) : body[k].abstract = <<"No abstract available">>

====
